---- MODULE Spec2Model ----
(***************************************************************************)
(* Model of the GameBrowser backend: the catalog store of crud.py over the *)
(* tables of models.py, and the BrowserBackend operations of main.py       *)
(* (add_new_game, launch_game, update_games).                              *)
(*                                                                         *)
(* Representation.                                                         *)
(*  - A table is the sequence of its rows in primary-key order, which is   *)
(*    the order Query.all() and Query.first() see.                         *)
(*  - A Python string that the code inspects character by character (a     *)
(*    file or game name) is a sequence of one-character strings.           *)
(*  - A filesystem path is [dir, name]: dir is the sequence of directory   *)
(*    components, name the file name.  Path(p).parent is p.dir.            *)
(*  - An Optional value is None == <<>> or Some(v) == <<v>>.               *)
(*  - An operation returns [st, ret, raised]: the store it leaves, its     *)
(*    return value and the exception that left it ("none" if it returned). *)
(*  - A failed commit leaves the store as it was before the call.          *)
(***************************************************************************)
EXTENDS Integers, Sequences, FiniteSets, TLC

VARIABLES games, categories, pictures, lookup_folders, clock, last

vars == <<games, categories, pictures, lookup_folders, clock, last>>

(* ---------------------------------------------------------------------- *)
(* Bounds                                                                  *)
(* ---------------------------------------------------------------------- *)
MaxClock == 1
MaxGameId == 2

(* ---------------------------------------------------------------------- *)
(* Python values                                                           *)
(* ---------------------------------------------------------------------- *)
None == <<>>
Some(v) == <<v>>

Range(s) == {s[i] : i \in 1..Len(s)}

UpperCase ==
  [c \in {"B", "F", "R", "V"} |->
     CASE c = "B" -> "b" [] c = "F" -> "f" [] c = "R" -> "r" [] c = "V" -> "v"]

lower(s) == [i \in 1..Len(s) |-> IF s[i] \in DOMAIN UpperCase THEN UpperCase[s[i]] ELSE s[i]]

endswith(s, suffix) ==
  /\ Len(s) >= Len(suffix)
  /\ SubSeq(s, Len(s) - Len(suffix) + 1, Len(s)) = suffix

(* ---------------------------------------------------------------------- *)
(* Names, paths and the filesystem                                         *)
(* ---------------------------------------------------------------------- *)
FooExe == <<"F", "o", "o", ".", "e", "x", "e">>
BarVRExe == <<"B", "a", "r", "V", "R", ".", "e", "x", "e">>
ToolExe == <<"t", "o", "o", "l", ".", "e", "x", "e">>
NoteTxt == <<"n", "o", "t", "e", ".", "t", "x", "t">>

DirOld == <<"C:", "old">>
DirLib == <<"C:", "lib">>
DirNew == <<"C:", "lib", "new">>

PathOf(dir, name) == [dir |-> dir, name |-> name]
parent(path) == path.dir

File(dir, name, mode) == [path |-> PathOf(dir, name), mode |-> mode]

\* st_mode permission bits: 493 = 0o755, 484 = 0o744
FSOld ==
  << File(DirOld, FooExe, 493), File(DirLib, BarVRExe, 493),
     File(DirLib, NoteTxt, 493), File(DirLib, ToolExe, 484) >>

FSNew ==
  << File(DirNew, FooExe, 493), File(DirLib, BarVRExe, 493),
     File(DirLib, NoteTxt, 493), File(DirLib, ToolExe, 484) >>

FileSystems == {FSOld, FSNew}

IsPrefix(p, s) == Len(p) <= Len(s) /\ SubSeq(s, 1, Len(p)) = p

\* st_mode & 0o111 == 0o111: the three execute bits are all set
AllExecBits(mode) ==
  /\ mode % 2 = 1
  /\ (mode \div 8) % 2 = 1
  /\ (mode \div 64) % 2 = 1

\* Path(folder).rglob("*.exe"): the files below the folder, at any depth,
\* whose name matches the pattern, in the order the filesystem lists them
rglob_exe(fs, folder) ==
  SelectSeq(fs, LAMBDA f : IsPrefix(folder, f.path.dir)
                           /\ endswith(lower(f.path.name), <<".", "e", "x", "e">>))

(* ---------------------------------------------------------------------- *)
(* Python dict, kept as the sequence of its items in insertion order       *)
(* ---------------------------------------------------------------------- *)
Keys(d) == {d[i].key : i \in 1..Len(d)}
Get(d, k) == (CHOOSE i \in 1..Len(d) : d[i].key = k)
Lookup(d, k) == d[Get(d, k)].val
\* d[k] = v
SetItem(d, k, v) ==
  IF k \in Keys(d)
    THEN [d EXCEPT ![Get(d, k)] = [key |-> k, val |-> v]]
    ELSE Append(d, [key |-> k, val |-> v])
DelItem(d, k) == SelectSeq(d, LAMBDA it : it.key # k)

\* d.update(e)
RECURSIVE DictUpdate(_, _)
DictUpdate(d, e) ==
  IF e = <<>> THEN d
  ELSE DictUpdate(SetItem(d, e[1].key, e[1].val), Tail(e))

(* ---------------------------------------------------------------------- *)
(* The SteamGridDB service: what it answers is an input of each operation  *)
(* ---------------------------------------------------------------------- *)
Names == {FooExe, BarVRExe}
SteamGridIds == {1, 42}
GridIds == SteamGridIds \cup {-1}

IdOf(name) ==
  IF name = FooExe THEN 1 ELSE 42

\* the name of a search result that is close to, but not, the name asked for
NearMiss(name) == Append(name, "2")

SearchKinds == {"found", "notfound", "error"}
SearchResponse(name, kind) ==
  CASE kind = "error" -> [status |-> 500, data |-> <<>>]
    [] kind = "notfound" ->
         [status |-> 200, data |-> << [name |-> NearMiss(name), id |-> 7] >>]
    [] kind = "found" ->
         [status |-> 200,
          data |-> << [name |-> NearMiss(name), id |-> 7],
                      [name |-> name, id |-> IdOf(name)] >>]

Png(id) == <<137, id>>
EmptyBytes == <<>>

GridKinds == {"image", "empty", "error"}
GridResponse(id, kind) ==
  CASE kind = "error" -> [status |-> 500, data |-> <<>>]
    [] kind = "empty" ->
         [status |-> 200, data |-> << [url |-> "", get |-> [status |-> 404, content |-> EmptyBytes]] >>]
    [] kind = "image" ->
         [status |-> 200,
          data |-> << [url |-> "", get |-> [status |-> 404, content |-> EmptyBytes]],
                      [url |-> "grid.png", get |-> [status |-> 200, content |-> Png(id)]] >>]
    [] kind = "broken" ->
         [status |-> 200,
          data |-> << [url |-> "grid.png", get |-> [status |-> 404, content |-> EmptyBytes]] >>]

\* raise Exception(f"Error: {response}")
ResponseError == "Exception: Error: <Response>"

\* the service as one operation sees it: an answer per name and per id
Service(s, g) ==
  [search |-> [n \in Names |-> SearchResponse(n, s[n])],
   grid |-> [i \in GridIds |-> GridResponse(i, g[i])]]

\* _get_game_picture_from_steam_grid
RECURSIVE FirstPicture(_)
FirstPicture(results) ==
  IF results = <<>> THEN [ret |-> EmptyBytes, raised |-> "none"]
  ELSE IF results[1].url # ""
    THEN IF results[1].get.status # 200
           THEN [ret |-> EmptyBytes, raised |-> ResponseError]
           ELSE [ret |-> results[1].get.content, raised |-> "none"]
    ELSE FirstPicture(Tail(results))

get_game_picture_from_steam_grid(svc, steam_grid_id) ==
  LET response == svc.grid[steam_grid_id] IN
  IF response.status # 200
    THEN [ret |-> EmptyBytes, raised |-> ResponseError]
    ELSE FirstPicture(response.data)

\* _get_game_id_from_steam_grid
RECURSIVE FirstMatch(_, _)
FirstMatch(results, name) ==
  IF results = <<>> THEN -1
  ELSE IF results[1].name = name THEN results[1].id
  ELSE FirstMatch(Tail(results), name)

\* a client that reports a refused search as "no such game"
get_game_id_unmatched_on_error(svc, name) ==
  LET response == svc.search[name] IN
  IF response.status # 200
    THEN [ret |-> -1, raised |-> "none"]
    ELSE [ret |-> FirstMatch(response.data, name), raised |-> "none"]

get_game_id_from_steam_grid(svc, name) ==
  LET response == svc.search[name] IN
  IF response.status # 200
    THEN [ret |-> -1, raised |-> ResponseError]
    ELSE [ret |-> FirstMatch(response.data, name), raised |-> "none"]

(* ---------------------------------------------------------------------- *)
(* Discovery: _collect_games_from_folder                                   *)
(* ---------------------------------------------------------------------- *)
\* the category the discovery gives a matched candidate
category_of(game_name) ==
  IF endswith(lower(game_name), <<"v", "r">>) THEN "VR" ELSE "PC"

\* applications = {exe_file.name: exe_file for ... if executable}
RECURSIVE Applications(_, _)
Applications(exe_files, acc) ==
  IF exe_files = <<>> THEN acc
  ELSE Applications(Tail(exe_files),
                    IF AllExecBits(exe_files[1].mode)
                      THEN SetItem(acc, exe_files[1].path.name, exe_files[1].path)
                      ELSE acc)

Unfilled == [executable |-> None, steam_grid_id |-> None, category |-> None]

\* the lookup loop: names still to look up, the dict, the names to remove
RECURSIVE LookupLoop(_, _, _, _, _)
LookupLoop(svc, applications, todo, gms, to_remove) ==
  IF todo = <<>> THEN [games |-> gms, to_remove |-> to_remove, raised |-> "none"]
  ELSE
    LET game_name == todo[1].key
        found == get_game_id_from_steam_grid(svc, game_name)
    IN IF found.raised # "none"
         THEN [games |-> gms, to_remove |-> to_remove, raised |-> found.raised]
       ELSE IF found.ret = -1
         THEN LookupLoop(svc, applications, Tail(todo), gms, Append(to_remove, game_name))
       ELSE LookupLoop(svc, applications, Tail(todo),
                       SetItem(gms, game_name,
                               [executable |-> Lookup(applications, game_name),
                                steam_grid_id |-> found.ret,
                                category |-> category_of(game_name)]),
                       to_remove)

RECURSIVE RemoveAll(_, _)
RemoveAll(d, ks) == IF ks = <<>> THEN d ELSE RemoveAll(DelItem(d, ks[1]), Tail(ks))

collect_games_from_folder(fs, svc, lookup_folder) ==
  LET applications == Applications(rglob_exe(fs, lookup_folder), <<>>)
      gms == [i \in 1..Len(applications) |-> [key |-> applications[i].key, val |-> Unfilled]]
      looked == LookupLoop(svc, applications, gms, gms, <<>>)
  IN IF looked.raised # "none"
       THEN [ret |-> <<>>, raised |-> looked.raised]
       ELSE [ret |-> RemoveAll(looked.games, looked.to_remove), raised |-> "none"]

(* ---------------------------------------------------------------------- *)
(* The catalog store: crud.py over the tables of models.py                 *)
(* ---------------------------------------------------------------------- *)
Store == [games |-> games, categories |-> categories,
          pictures |-> pictures, lookup_folders |-> lookup_folders]

\* the primary key the store gives the next row of a table
NextId(table) == IF table = <<>> THEN 1 ELSE table[Len(table)].id + 1

\* Query.first(): None or the first of the rows that passed the filter
First(rows) == IF rows = <<>> THEN None ELSE Some(rows[1])

Ids(table) == {table[i].id : i \in 1..Len(table)}

\* a Python object handed to the store: a mapped Game or a plain int
GameObj(game) == [type |-> "Game", value |-> game]
IntObj(n) == [type |-> "int", value |-> n]

\* filter(Game.name == name and Game.category == category): Python's `and`
\* of two SQL expressions is its first operand, so only the name is tested
GameFilter(game, name, category) == game.name = name

\* filter(Picture.game_id == game_id and Picture.picture == picture)
PictureFilter(row, game_id, picture) == row.game_id = game_id

get_game(st, name, category) ==
  First(SelectSeq(st.games, LAMBDA g : GameFilter(g, name, category)))

get_category(st, name) == First(SelectSeq(st.categories, LAMBDA c : c.name = name))

get_picture(st, game_id) == First(SelectSeq(st.pictures, LAMBDA p : p.game_id = game_id))

get_all_games(st) == st.games

get_lookup_folders(st) == st.lookup_folders

create_game(st, name, category, executable, steam_grid_id) ==
  LET game == get_game(st, name, category)
      category_obj == get_category(st, category)
  IN IF game # None THEN [st |-> st, ret |-> game, raised |-> "none"]
     ELSE IF category_obj = None THEN [st |-> st, ret |-> None, raised |-> "none"]
     ELSE LET row == [id |-> NextId(st.games),
                      name |-> name,
                      category_id |-> category_obj[1].id,
                      executable |-> executable,
                      steam_grid_id |-> steam_grid_id,
                      last_played |-> None,
                      parent_directory |-> parent(executable)]
          IN [st |-> [st EXCEPT !.games = Append(@, row)],
              ret |-> Some(row), raised |-> "none"]

UpdateGameParams ==
  {"name", "category", "executable", "steam_grid_id", "last_played", "parent_directory"}

\* the value of a keyword parameter: None when the call does not pass it
Arg(kwargs, k) == IF k \in DOMAIN kwargs THEN Some(kwargs[k]) ELSE None

\* an update_game body that recomputes no parent_directory: the column is
\* written only when the call passes it
assign_fields_keeping_directory(st, game, kwargs) ==
  IF Arg(kwargs, "category") # None
    THEN [st |-> st, ret |-> None, raised |-> "AttributeError"]
  ELSE
    LET g1 == IF Arg(kwargs, "name") # None /\ kwargs.name # <<>>
                THEN [game EXCEPT !.name = kwargs.name] ELSE game
        g2 == IF Arg(kwargs, "executable") # None
                THEN [g1 EXCEPT !.executable = kwargs.executable] ELSE g1
        g3 == IF Arg(kwargs, "steam_grid_id") # None /\ kwargs.steam_grid_id # 0
                THEN [g2 EXCEPT !.steam_grid_id = kwargs.steam_grid_id] ELSE g2
        g4 == IF Arg(kwargs, "last_played") # None
                THEN [g3 EXCEPT !.last_played = Some(kwargs.last_played)] ELSE g3
        g5 == IF Arg(kwargs, "parent_directory") # None /\ kwargs.parent_directory # <<>>
                THEN [g4 EXCEPT !.parent_directory = kwargs.parent_directory]
                ELSE g4
    IN [st |-> [st EXCEPT !.games = [i \in 1..Len(@) |-> IF @[i].id = game.id THEN g5 ELSE @[i]]],
        ret |-> Some(g5), raised |-> "none"]

\* the body of update_game: the row of the store is the one the mapped
\* object stands for
assign_fields(st, game, kwargs) ==
  IF Arg(kwargs, "category") # None
    \* a str assigned to the relationship attribute Game.category
    THEN [st |-> st, ret |-> None, raised |-> "AttributeError"]
  ELSE
    LET g1 == IF Arg(kwargs, "name") # None /\ kwargs.name # <<>>
                THEN [game EXCEPT !.name = kwargs.name] ELSE game
        g2 == IF Arg(kwargs, "executable") # None
                THEN [g1 EXCEPT !.executable = kwargs.executable] ELSE g1
        g3 == IF Arg(kwargs, "steam_grid_id") # None /\ kwargs.steam_grid_id # 0
                THEN [g2 EXCEPT !.steam_grid_id = kwargs.steam_grid_id] ELSE g2
        g4 == IF Arg(kwargs, "last_played") # None
                THEN [g3 EXCEPT !.last_played = Some(kwargs.last_played)] ELSE g3
        g5 == IF Arg(kwargs, "parent_directory") # None /\ kwargs.parent_directory # <<>>
                THEN [g4 EXCEPT !.parent_directory = kwargs.parent_directory]
                ELSE [g4 EXCEPT !.parent_directory = parent(g4.executable)]
    IN [st |-> [st EXCEPT !.games = [i \in 1..Len(@) |-> IF @[i].id = game.id THEN g5 ELSE @[i]]],
        ret |-> Some(g5), raised |-> "none"]

\* an update_game that takes any keyword and ignores those it does not know
update_game_any_keyword(st, game, kwargs) == assign_fields(st, game, kwargs)

\* an update_game that takes any keyword and writes the row as one never
\* played
update_game_rewriting_row(st, game, kwargs) ==
  assign_fields(st, [game EXCEPT !.last_played = None], kwargs)

\* update_game(db, game, name=None, ..., parent_directory=None): a call with
\* a keyword that is no parameter is a TypeError
update_game(st, game, kwargs) ==
  IF ~(DOMAIN kwargs \subseteq UpdateGameParams)
    THEN [st |-> st, ret |-> None, raised |-> "TypeError"]
    ELSE assign_fields(st, game, kwargs)

\* delete_game(db, game): Session.delete accepts a mapped instance only.
\* Game.pictures has no delete cascade, so the flush sets game_id of the
\* game's pictures to NULL, which the NOT NULL column refuses.
delete_game(st, obj) ==
  IF obj.type # "Game"
    THEN [st |-> st, ret |-> None, raised |-> "UnmappedInstanceError"]
  ELSE IF \E i \in 1..Len(st.pictures) : st.pictures[i].game_id = obj.value.id
    THEN [st |-> st, ret |-> None, raised |-> "IntegrityError"]
  ELSE [st |-> [st EXCEPT !.games = SelectSeq(@, LAMBDA g : g.id # obj.value.id)],
        ret |-> None, raised |-> "none"]

create_category(st, name) ==
  LET category == get_category(st, name) IN
  IF category # None THEN [st |-> st, ret |-> category, raised |-> "none"]
  ELSE LET row == [id |-> NextId(st.categories), name |-> name]
       IN [st |-> [st EXCEPT !.categories = Append(@, row)],
           ret |-> Some(row), raised |-> "none"]

create_picture(st, picture, game_id) ==
  LET db_picture == First(SelectSeq(st.pictures, LAMBDA p : PictureFilter(p, game_id, picture))) IN
  IF db_picture # None THEN [st |-> st, ret |-> db_picture, raised |-> "none"]
  ELSE IF game_id \notin Ids(st.games)
    \* pictures.game_id is a foreign key to games.id
    THEN [st |-> st, ret |-> None, raised |-> "IntegrityError"]
  ELSE LET row == [id |-> NextId(st.pictures), picture |-> picture, game_id |-> game_id]
       IN [st |-> [st EXCEPT !.pictures = Append(@, row)],
           ret |-> Some(row), raised |-> "none"]

create_lookup_folder(st, location) ==
  LET lookup_folder == First(SelectSeq(st.lookup_folders, LAMBDA f : f.location = location)) IN
  IF lookup_folder # None THEN [st |-> st, ret |-> lookup_folder, raised |-> "none"]
  ELSE LET row == [id |-> NextId(st.lookup_folders), location |-> location]
       IN [st |-> [st EXCEPT !.lookup_folders = Append(@, row)],
           ret |-> Some(row), raised |-> "none"]

(* ---------------------------------------------------------------------- *)
(* BrowserBackend: main.py                                                 *)
(* ---------------------------------------------------------------------- *)
NotFoundError == "Exception: game doesn't exist in the database"
CreateError == "Exception: error while creating game"
PictureError == "Exception: error while getting game picture"
LaunchError == "Exception: error while launching game"
NoPictureError == "Exception: game doesn't have a picture"

\* add_new_game(name, category, executable, steam_grid_id=None);
\* fetched is the artwork the call got, None if it never got an answer
add_new_game(st, svc, name, category, executable, steam_grid_id) ==
  LET resolved == IF steam_grid_id = None
                    THEN get_game_id_from_steam_grid(svc, name)
                    ELSE [ret |-> steam_grid_id[1], raised |-> "none"]
  IN IF resolved.raised # "none"
       THEN [st |-> st, raised |-> resolved.raised, fetched |-> None]
     ELSE
       LET picture == get_game_picture_from_steam_grid(svc, resolved.ret) IN
       IF picture.raised # "none"
         THEN [st |-> st, raised |-> picture.raised, fetched |-> None]
       ELSE
         LET created == create_game(st, name, category, executable, resolved.ret) IN
         IF created.ret = None
           THEN [st |-> created.st, raised |-> CreateError, fetched |-> Some(picture.ret)]
         ELSE IF picture.ret = EmptyBytes
           THEN LET deleted == delete_game(created.st, IntObj(created.ret[1].id)) IN
                [st |-> deleted.st,
                 raised |-> IF deleted.raised # "none" THEN deleted.raised ELSE PictureError,
                 fetched |-> Some(picture.ret)]
         ELSE LET stored == create_picture(created.st, picture.ret, created.ret[1].id) IN
              [st |-> stored.st, raised |-> stored.raised, fetched |-> Some(picture.ret)]

\* get_game_picture(name, category): picture is the bytes the call returns
get_game_picture(st, name, category) ==
  LET game == get_game(st, name, category) IN
  IF game = None
    THEN [st |-> st, raised |-> NotFoundError, picture |-> None]
  ELSE
    LET picture == get_picture(st, game[1].id) IN
    IF picture = None
      THEN [st |-> st, raised |-> NoPictureError, picture |-> None]
      ELSE [st |-> st, raised |-> "none", picture |-> Some(picture[1].picture)]

\* a launch_game that takes the timestamp back when the launch fails
launch_game_reverting(st, name, category, now, exit_status) ==
  LET game == get_game(st, name, category) IN
  IF game = None
    THEN [st |-> st, raised |-> NotFoundError, launched |-> None]
  ELSE
    LET updated == update_game(st, game[1], [last_played |-> now])
        row == get_game(updated.st, name, category)[1]
    IN [st |-> IF exit_status # 0 THEN st ELSE updated.st,
        raised |-> IF exit_status # 0 THEN LaunchError ELSE "none",
        launched |-> Some([executable |-> updated.ret[1].executable,
                           last_played |-> row.last_played])]

\* launch_game(name, category): now is datetime.now(), exit_status what the
\* launched command exits with.  launched is what the Launcher was handed
\* and the last_played the store held at that moment.
launch_game(st, name, category, now, exit_status) ==
  LET game == get_game(st, name, category) IN
  IF game = None
    THEN [st |-> st, raised |-> NotFoundError, launched |-> None]
  ELSE
    LET updated == update_game(st, game[1], [last_played |-> now])
        row == get_game(updated.st, name, category)[1]
    IN [st |-> updated.st,
        raised |-> IF exit_status # 0 THEN LaunchError ELSE "none",
        launched |-> Some([executable |-> updated.ret[1].executable,
                           last_played |-> row.last_played])]

\* update_games, first loop: games.update(...) over the lookup folders
RECURSIVE CollectAll(_, _, _, _)
CollectAll(fs, svc, folders, gms) ==
  IF folders = <<>> THEN [ret |-> gms, raised |-> "none"]
  ELSE LET found == collect_games_from_folder(fs, svc, folders[1].location) IN
       IF found.raised # "none" THEN [ret |-> gms, raised |-> found.raised]
       ELSE CollectAll(fs, svc, Tail(folders), DictUpdate(gms, found.ret))

\* update_games, second loop: delete or update each stored game
RECURSIVE Reconcile(_, _, _)
Reconcile(st, db_games, gms) ==
  IF db_games = <<>> THEN [st |-> st, raised |-> "none"]
  ELSE
    LET game == db_games[1]
        done == IF game.name \notin Keys(gms)
                  THEN delete_game(st, IntObj(game.id))
                  ELSE update_game(st, game,
                         [executable |-> Lookup(gms, game.name).executable,
                          parent_folder |-> parent(Lookup(gms, game.name).executable)])
    IN IF done.raised # "none" THEN [st |-> done.st, raised |-> done.raised]
       ELSE Reconcile(done.st, Tail(db_games), gms)

\* update_games, third loop: add the discovered games the store did not hold
RECURSIVE AddNew(_, _, _, _)
AddNew(st, svc, items, db_games_names) ==
  IF items = <<>> THEN [st |-> st, raised |-> "none"]
  ELSE IF items[1].key \in db_games_names
    THEN AddNew(st, svc, Tail(items), db_games_names)
  ELSE
    LET added == add_new_game(st, svc, items[1].key, items[1].val.category,
                              items[1].val.executable, Some(items[1].val.steam_grid_id))
    IN IF added.raised # "none" THEN [st |-> added.st, raised |-> added.raised]
       ELSE AddNew(added.st, svc, Tail(items), db_games_names)

\* an update_games that forgets the lookup folders that hold no *.exe
update_games_pruning_folders(st, fs, svc) ==
  LET collected == CollectAll(fs, svc, get_lookup_folders(st), <<>>) IN
  IF collected.raised # "none"
    THEN [st |-> st, raised |-> collected.raised, discovered |-> None]
  ELSE
    LET kept == [st EXCEPT !.lookup_folders =
                   SelectSeq(@, LAMBDA f : rglob_exe(fs, f.location) # <<>>)]
        db_games == get_all_games(kept)
        reconciled == Reconcile(kept, db_games, collected.ret)
    IN IF reconciled.raised # "none"
         THEN [st |-> reconciled.st, raised |-> reconciled.raised,
               discovered |-> Some(collected.ret)]
       ELSE
         LET db_games_names == {db_games[i].name : i \in 1..Len(db_games)}
             added == AddNew(reconciled.st, svc, collected.ret, db_games_names)
         IN [st |-> added.st, raised |-> added.raised, discovered |-> Some(collected.ret)]

\* update_games(): discovered is the dict of the first loop, None if the
\* discovery raised
update_games(st, fs, svc) ==
  LET collected == CollectAll(fs, svc, get_lookup_folders(st), <<>>) IN
  IF collected.raised # "none"
    THEN [st |-> st, raised |-> collected.raised, discovered |-> None]
  ELSE
    LET db_games == get_all_games(st)
        reconciled == Reconcile(st, db_games, collected.ret)
    IN IF reconciled.raised # "none"
         THEN [st |-> reconciled.st, raised |-> reconciled.raised,
               discovered |-> Some(collected.ret)]
       ELSE
         LET db_games_names == {db_games[i].name : i \in 1..Len(db_games)}
             added == AddNew(reconciled.st, svc, collected.ret, db_games_names)
         IN [st |-> added.st, raised |-> added.raised, discovered |-> Some(collected.ret)]

(* ---------------------------------------------------------------------- *)
(* The state machine                                                       *)
(* ---------------------------------------------------------------------- *)
CategoryNames == {"PC", "VR"}
\* a category nobody created
MissingCategory == "Indie"
Locations == {DirLib, DirOld}
Executables(name) ==
  IF name = FooExe THEN {PathOf(DirOld, FooExe), PathOf(DirNew, FooExe)}
  ELSE {PathOf(DirLib, name)}
Pictures == {Png(id) : id \in SteamGridIds}

\* what the service answers during one reconciliation pass: the search per
\* candidate name and the grid per id; at most one of each goes wrong
OneOff(keys, good, bad) ==
  {[k \in keys |-> good]} \cup
  {[k \in keys |-> IF k = x THEN b ELSE good] : x \in keys, b \in bad}
PassAnswers ==
  {[search |-> s, grid |-> g] :
     s \in OneOff(Names, "found", {"notfound", "error"}),
     g \in OneOff(SteamGridIds, "image", {"empty", "error"})}
\* the service knows no game of id -1
ServiceOf(answers) ==
  Service(answers.search,
          [i \in GridIds |-> IF i \in SteamGridIds THEN answers.grid[i] ELSE "error"])
\* what the service answers to the calls of one add_new_game; an answer the
\* call never asks for is not enumerated: no search when the id is given, no
\* grid when the search raised, and -1 is no game of the service
CallAnswers(steam_grid_id) ==
  IF steam_grid_id # None
    THEN {[search |-> "found", grid |-> gk] : gk \in GridKinds \cup {"broken"}}
    ELSE {[search |-> "found", grid |-> gk] : gk \in GridKinds \cup {"broken"}}
         \cup {[search |-> sk, grid |-> "error"] : sk \in {"notfound", "error"}}
ServiceOfCall(answers) ==
  Service([n \in Names |-> answers.search],
          [i \in GridIds |-> IF i \in SteamGridIds THEN answers.grid ELSE "error"])

EmptyStore == [games |-> <<>>, categories |-> <<>>, pictures |-> <<>>, lookup_folders |-> <<>>]

\* the store as the script of main.py sets it up before it constructs the
\* backend: create_2_categories and add_lookup_folders on an empty database
ScriptStore ==
  LET c1 == create_category(EmptyStore, "VR").st
      c2 == create_category(c1, "PC").st
      f1 == create_lookup_folder(c2, DirLib).st
  IN create_lookup_folder(f1, DirOld).st

Commit(st) ==
  /\ \A i \in 1..Len(st.games) : st.games[i].id <= MaxGameId
  /\ games' = st.games
  /\ categories' = st.categories
  /\ pictures' = st.pictures
  /\ lookup_folders' = st.lookup_folders

NoCall == [op |-> "none", args |-> <<>>, raised |-> "none", obs |-> <<>>]

Init ==
  /\ games = ScriptStore.games
  /\ categories = ScriptStore.categories
  /\ pictures = ScriptStore.pictures
  /\ lookup_folders = ScriptStore.lookup_folders
  /\ clock = 0
  /\ last = NoCall

CreateCategory ==
  \E name \in CategoryNames :
    \E res \in {create_category(Store, name)} :
    /\ Commit(res.st)
    /\ last' = [op |-> "create_category", args |-> <<name>>,
                raised |-> res.raised, obs |-> res.ret]
    /\ UNCHANGED clock

CreateLookupFolder ==
  \E location \in Locations :
    \E res \in {create_lookup_folder(Store, location)} :
    /\ Commit(res.st)
    /\ last' = [op |-> "create_lookup_folder", args |-> <<location>>,
                raised |-> res.raised, obs |-> res.ret]
    /\ UNCHANGED clock

CreateGame ==
  \E name \in Names, category \in CategoryNames :
    \E executable \in Executables(name) :
      \E res \in {create_game(Store, name, category, executable, IdOf(name))} :
      /\ Commit(res.st)
      /\ last' = [op |-> "create_game", args |-> <<name, category>>,
                  raised |-> res.raised, obs |-> res.ret]
      /\ UNCHANGED clock

CreatePicture ==
  \E i \in 1..Len(games), picture \in Pictures :
    \E res \in {create_picture(Store, picture, games[i].id)} :
    /\ Commit(res.st)
    /\ last' = [op |-> "create_picture", args |-> <<picture, games[i].id>>,
                raised |-> res.raised, obs |-> res.ret]
    /\ UNCHANGED clock

DeleteGame ==
  \E i \in 1..Len(games) :
    \E res \in {delete_game(Store, GameObj(games[i]))} :
    /\ Commit(res.st)
    /\ last' = [op |-> "delete_game", args |-> <<games[i].id>>,
                raised |-> res.raised, obs |-> <<>>]
    /\ UNCHANGED clock

AddNewGame ==
  \E name \in Names, category \in CategoryNames \cup {MissingCategory} :
    \E executable \in Executables(name), steam_grid_id \in {None, Some(IdOf(name))} :
      \E answers \in CallAnswers(steam_grid_id) :
        \E res \in {add_new_game(Store, ServiceOfCall(answers), name, category,
                                 executable, steam_grid_id)} :
          /\ Commit(res.st)
          /\ last' = [op |-> "add_new_game", args |-> <<name, category>>,
                      raised |-> res.raised, obs |-> res.fetched]
          /\ UNCHANGED clock

LaunchGame ==
  \E name \in Names, category \in CategoryNames, exit_status \in {0, 1} :
    /\ clock < MaxClock
    /\ \E res \in {launch_game(Store, name, category, clock + 1, exit_status)} :
       /\ Commit(res.st)
       /\ last' = [op |-> "launch_game", args |-> <<name, category, clock + 1, exit_status>>,
                   raised |-> res.raised, obs |-> res.launched]
    /\ clock' = clock + 1

\* the keyword arguments of an update_game call that passes no
\* parent_directory: none at all, a new executable, another column, or the
\* category, which the mapped class refuses
AllExecutables == UNION {Executables(name) : name \in Names}
UpdateKwargs ==
  {<<>>}
  \cup {[executable |-> e] : e \in AllExecutables}
  \cup {[steam_grid_id |-> 42], [category |-> "PC"]}

UpdateGame ==
  \E i \in 1..Len(games), kwargs \in UpdateKwargs :
    \E res \in {update_game(Store, games[i], kwargs)} :
      /\ Commit(res.st)
      /\ last' = [op |-> "update_game", args |-> <<games[i], kwargs>>,
                  raised |-> res.raised, obs |-> res.ret]
      /\ UNCHANGED clock

GetGamePicture ==
  \E name \in Names, category \in CategoryNames :
    \E res \in {get_game_picture(Store, name, category)} :
      /\ Commit(res.st)
      /\ last' = [op |-> "get_game_picture", args |-> <<name, category>>,
                  raised |-> res.raised, obs |-> res.picture]
      /\ UNCHANGED clock

\* recorded: whether the call record keeps what the pass was given, and
\* whether it is the first pass on these inputs (run 1) or follows a pass
\* on the same inputs with no other call in between (run 2)
UpdateGamesOn(recorded) ==
  \E fs \in FileSystems, answers \in PassAnswers :
    \E res \in {update_games(Store, fs, ServiceOf(answers))} :
      /\ Commit(res.st)
      /\ last' = [op |-> "update_games",
                  args |-> IF recorded
                             THEN [fs |-> fs, answers |-> answers,
                                   run |-> IF /\ last.op = "update_games"
                                              /\ last.args.fs = fs
                                              /\ last.args.answers = answers
                                             THEN 2 ELSE 1]
                             ELSE <<>>,
                  raised |-> res.raised, obs |-> res.discovered]
      /\ UNCHANGED clock

UpdateGames == UpdateGamesOn(FALSE)

UpdateGamesRecorded == UpdateGamesOn(TRUE)

\* the backend on the store the script set up
Next ==
  \/ AddNewGame
  \/ LaunchGame
  \/ GetGamePicture
  \/ UpdateGames
  \/ DeleteGame

Spec == Init /\ [][Next]_vars

\* the store operations alone, from an empty database
InitStore ==
  /\ games = <<>>
  /\ categories = <<>>
  /\ pictures = <<>>
  /\ lookup_folders = <<>>
  /\ clock = 0
  /\ last = NoCall

NextStore ==
  \/ CreateCategory
  \/ CreateLookupFolder
  \/ CreateGame
  \/ CreatePicture
  \/ DeleteGame

SpecStore == InitStore /\ [][NextStore]_vars

\* reconciliation passes whose inputs are on record
NextSync ==
  \/ UpdateGamesRecorded
  \/ AddNewGame
  \/ DeleteGame

SpecSync == Init /\ [][NextSync]_vars

\* reconciliation passes over a configuration that is being set up: the
\* categories and the lookup folders come and the passes run in between
NextConfig ==
  \/ CreateCategory
  \/ CreateLookupFolder
  \/ UpdateGames
  \/ DeleteGame

SpecConfig == InitStore /\ [][NextConfig]_vars

\* the calls that write the columns of a Game
NextFields ==
  \/ CreateGame
  \/ UpdateGame
  \/ LaunchGame
  \/ UpdateGames

SpecFields == Init /\ [][NextFields]_vars

(* ---------------------------------------------------------------------- *)
(* What the claims speak of                                                *)
(* ---------------------------------------------------------------------- *)
StoreNext == [games |-> games', categories |-> categories',
              pictures |-> pictures', lookup_folders |-> lookup_folders']


CategoryNameOf(cats, game) ==
  LET named == Range(SelectSeq(cats, LAMBDA c : c.id = game.category_id)) IN
  IF named = {} THEN MissingCategory ELSE (CHOOSE c \in named : TRUE).name

\* the Games of a name, and of a (name, category) identity
GamesNamed(gms, name) == Range(SelectSeq(gms, LAMBDA g : g.name = name))
GamesOf(gms, cats, name, category) ==
  Range(SelectSeq(gms, LAMBDA g : g.name = name /\ CategoryNameOf(cats, g) = category))
PicturesOf(pics, game) == Range(SelectSeq(pics, LAMBDA p : p.game_id = game.id))

\* a step that is a reconciliation pass whose discovery delivered a set
PassOver == last'.op = "update_games" /\ last'.obs # None
Discovered == last'.obs[1]

(* ---------------------------------------------------------------------- *)
(* C1. After a reconciliation pass over the discovery set D, every Game    *)
(* that was in the store before the pass and whose name is no key of D is  *)
(* gone from the store.                                                    *)
(* ---------------------------------------------------------------------- *)
C1_RemovalCorrect ==
  [][PassOver =>
       \A i \in 1..Len(games) :
         games[i].name \notin Keys(Discovered) =>
           ~\E j \in 1..Len(games') :
               games'[j].id = games[i].id /\ games'[j].name = games[i].name]_vars

(* ---------------------------------------------------------------------- *)
(* C2. After a reconciliation pass, every Game that was in the store and   *)
(* that the discovery found at another executable path has the discovered  *)
(* path as its executable and the directory of that path as its            *)
(* parent_directory.                                                       *)
(* ---------------------------------------------------------------------- *)
C2_UpdateCorrect ==
  [][PassOver =>
       \A i \in 1..Len(games) :
         ( /\ games[i].name \in Keys(Discovered)
           /\ Lookup(Discovered, games[i].name).executable # games[i].executable )
         => \E j \in 1..Len(games') :
              /\ games'[j].id = games[i].id
              /\ games'[j].executable = Lookup(Discovered, games[i].name).executable
              /\ games'[j].parent_directory
                   = parent(Lookup(Discovered, games[i].name).executable)]_vars

(* ---------------------------------------------------------------------- *)
(* C3. add_new_game is all-or-nothing: when the artwork fetch returned     *)
(* empty bytes the call fails and the store holds no Game of that name;    *)
(* after any call the Game of the call and its Picture both exist or       *)
(* neither does.                                                           *)
(* ---------------------------------------------------------------------- *)
C3_AddNewGameAtomic ==
  last.op = "add_new_game" =>
    /\ last.obs = Some(EmptyBytes) =>
         /\ last.raised # "none"
         /\ GamesNamed(games, last.args[1]) = {}
    /\ \A g \in GamesOf(games, categories, last.args[1], last.args[2]) :
         PicturesOf(pictures, g) # {}
    /\ \A i \in 1..Len(pictures) : pictures[i].game_id \in Ids(games)

Candidates(fs, folders) ==
  UNION {Keys(Applications(rglob_exe(fs, folders[i].location), <<>>)) : i \in 1..Len(folders)}

Refused(args, folders) ==
  {n \in Candidates(args.fs, folders) : args.answers.search[n] = "error"}

AsNotFound(answers) ==
  [answers EXCEPT !.search = [n \in Names |-> IF @[n] = "error" THEN "notfound" ELSE @[n]]]

\* C5 as stated: the pass delivers a discovery set and leaves the store as
\* a pass would in which the refused candidates were not found
C5_RefusedSearchOnlyUnmatches ==
  [][(last'.op = "update_games" /\ Refused(last'.args, lookup_folders) # {}) =>
       /\ last'.obs # None
       /\ StoreNext = update_games(Store, last'.args.fs,
                                   ServiceOf(AsNotFound(last'.args.answers))).st]_vars

\* C5 as amended: the pass raises the error of the response, delivers no
\* discovery set and changes no table
C5_RefusedSearchAbortsPass ==
  [][(last'.op = "update_games" /\ Refused(last'.args, lookup_folders) # {}) =>
       /\ last'.raised = ResponseError
       /\ last'.obs = None
       /\ StoreNext = Store]_vars

\* a pass in which one candidate was refused and another one was found
C5_PassWithOneRefusal ==
  /\ last.op = "update_games"
  /\ Refused(last.args, lookup_folders) # {}
  /\ \E n \in Candidates(last.args.fs, lookup_folders) : last.args.answers.search[n] = "found"
  /\ last.raised = ResponseError

(* ---------------------------------------------------------------------- *)
(* C6. Deleting a Game removes its Pictures too: after delete_game the     *)
(* Game and its Pictures are gone, and in every state each Picture's       *)
(* game_id is the id of a Game of the store.                               *)
(* ---------------------------------------------------------------------- *)
C6_DeleteRemovesPictures ==
  /\ \A i \in 1..Len(pictures) : pictures[i].game_id \in Ids(games)
  /\ last.op = "delete_game" =>
       /\ last.args[1] \notin Ids(games)
       /\ \A i \in 1..Len(pictures) : pictures[i].game_id # last.args[1]

(* ---------------------------------------------------------------------- *)
(* C7. launch_game on a Game of the store sets its last_played to the      *)
(* current time before it hands the stored executable to the Launcher; a   *)
(* failed launch is raised as a launch error and last_played keeps the     *)
(* new time.                                                               *)
(* ---------------------------------------------------------------------- *)
C7_LaunchStampsThenLaunches ==
  [][(last'.op = "launch_game" /\ clock' = clock + 1) =>
       \A g \in GamesOf(games, categories, last'.args[1], last'.args[2]) :
         /\ last'.args[3] = clock'
         /\ last'.raised = IF last'.args[4] # 0 THEN LaunchError ELSE "none"
         /\ last'.obs = Some([executable |-> g.executable,
                              last_played |-> Some(last'.args[3])])
         /\ \E j \in 1..Len(games') :
              /\ games'[j].id = g.id
              /\ games'[j].executable = g.executable
              /\ games'[j].last_played = Some(last'.args[3])]_vars

\* a launch that failed, of a game that carries the time of that launch
C7_FailedLaunchKeepsStamp ==
  /\ last.op = "launch_game"
  /\ last.raised = LaunchError
  /\ \E g \in GamesOf(games, categories, last.args[1], last.args[2]) :
       g.last_played = Some(last.args[3])

(* ---------------------------------------------------------------------- *)
(* C8. The discovery puts a matched candidate in category "VR" exactly     *)
(* when the name of the game ends in "vr", whatever the case of the        *)
(* letters, and in "PC" otherwise; the game of the file BarVR.exe is the   *)
(* game BarVR and is stored in category VR.                                *)
(* ---------------------------------------------------------------------- *)
\* Path(name).stem: the file name without its last suffix
stem(name) ==
  LET dots == {i \in 2..Len(name) : name[i] = "."} IN
  IF dots = {} THEN name
  ELSE SubSeq(name, 1, (CHOOSE i \in dots : \A j \in dots : j <= i) - 1)

EndsInVR(name) == endswith(lower(name), <<"v", "r">>)

C8_CategoryInference ==
  (last.op = "update_games" /\ last.obs # None) =>
    \A i \in 1..Len(last.obs[1]) :
      LET game_name == stem(last.obs[1][i].val.executable.name)
          category == IF EndsInVR(game_name) THEN "VR" ELSE "PC"
      IN /\ last.obs[1][i].val.category = category
         /\ \A g \in GamesNamed(games, last.obs[1][i].key) :
              g.executable = last.obs[1][i].val.executable
                => CategoryNameOf(categories, g) = category

(* ---------------------------------------------------------------------- *)
(* C9. A candidate whose search finds no game of exactly its name is       *)
(* dropped from the discovery set, and after the pass the store holds no   *)
(* Game of that name.                                                      *)
(* ---------------------------------------------------------------------- *)
Unmatched(args, folders) ==
  {n \in Candidates(args.fs, folders) : args.answers.search[n] = "notfound"}

C9_UnmatchedNeverStored ==
  [][PassOver =>
       \A n \in Unmatched(last'.args, lookup_folders) :
         /\ n \notin Keys(Discovered)
         /\ GamesNamed(games', n) = {}]_vars

(* ---------------------------------------------------------------------- *)
(* C10. Each create of the store returns the record of the identity it is  *)
(* called with when there is one, and adds none; it adds a record when     *)
(* there is none.  The identity of a Game is its (name, category) pair.    *)
(* ---------------------------------------------------------------------- *)
C10_CreateIdempotentOnIdentity ==
  [][ /\ last'.op = "create_game" =>
           LET existing == GamesOf(games, categories, last'.args[1], last'.args[2]) IN
           IF existing # {}
             THEN games' = games /\ last'.obs # None /\ last'.obs[1] \in existing
             ELSE get_category(Store, last'.args[2]) # None =>
                    /\ Len(games') = Len(games) + 1
                    /\ last'.obs = Some(games'[Len(games')])
                    /\ games'[Len(games')].name = last'.args[1]
                    /\ CategoryNameOf(categories, games'[Len(games')]) = last'.args[2]
      /\ last'.op = "create_category" =>
           LET existing == Range(SelectSeq(categories, LAMBDA c : c.name = last'.args[1])) IN
           IF existing # {}
             THEN categories' = categories /\ last'.obs[1] \in existing
             ELSE Len(categories') = Len(categories) + 1 /\ last'.obs[1].name = last'.args[1]
      /\ last'.op = "create_lookup_folder" =>
           LET existing == Range(SelectSeq(lookup_folders, LAMBDA f : f.location = last'.args[1])) IN
           IF existing # {}
             THEN lookup_folders' = lookup_folders /\ last'.obs[1] \in existing
             ELSE /\ Len(lookup_folders') = Len(lookup_folders) + 1
                  /\ last'.obs[1].location = last'.args[1]
      /\ last'.op = "create_picture" =>
           LET existing == Range(SelectSeq(pictures, LAMBDA r : r.game_id = last'.args[2]
                                                     /\ r.picture = last'.args[1])) IN
           existing # {} => pictures' = pictures /\ last'.obs[1] \in existing
    ]_vars

(* ---------------------------------------------------------------------- *)
(* C11. launch_game and get_game_picture look the game up by name and by   *)
(* category: a call for a (name, category) of which the store holds no     *)
(* Game raises the not-found error and leaves the store as it was, also    *)
(* when the store holds a Game of that name in another category.           *)
(* ---------------------------------------------------------------------- *)
C11_LookupByNameAndCategory ==
  [][(last'.op \in {"launch_game", "get_game_picture"}
        /\ GamesOf(games, categories, last'.args[1], last'.args[2]) = {})
     => (last'.raised = NotFoundError /\ last'.obs = None /\ StoreNext = Store)]_vars

(* ---------------------------------------------------------------------- *)
(* C12. add_new_game for a (name, category) of which the store already     *)
(* holds a Game raises an exception and adds no Game to the store.         *)
(* ---------------------------------------------------------------------- *)
C12_AddExistingRaises ==
  [][(last'.op = "add_new_game"
        /\ GamesOf(games, categories, last'.args[1], last'.args[2]) # {})
     => (last'.raised # "none" /\ Range(games') \subseteq Range(games))]_vars

(* ---------------------------------------------------------------------- *)
(* C13. A reconciliation pass leaves the LookupFolder records as they      *)
(* were and removes no Category: the lookup_folders table is the same      *)
(* after the pass as before, and every Category of before is there after.  *)
(* ---------------------------------------------------------------------- *)
C13_PassKeepsFoldersAndCategories ==
  [][last'.op = "update_games" =>
       /\ lookup_folders' = lookup_folders
       /\ \A i \in 1..Len(categories) :
            \E j \in 1..Len(categories') : categories'[j] = categories[i]]_vars

\* a pass has just filled the store from two lookup folders, one of which
\* held no game of its own
C13_PassFilledStore ==
  /\ last.op = "update_games"
  /\ last.raised = "none"
  /\ Len(games) = 2
  /\ Len(pictures) = 2
  /\ Len(lookup_folders) = 2
  /\ \E i \in 1..Len(lookup_folders) :
       \A j \in 1..Len(games) : ~IsPrefix(lookup_folders[i].location, games[j].parent_directory)
  /\ Len(categories) = 2

C15_ParentDirectoryOfExecutable ==
  \A i \in 1..Len(games) : games[i].parent_directory = parent(games[i].executable)

\* update_game has just moved a Game to an executable in another directory
C15_GameMovedByUpdate ==
  /\ last.op = "update_game"
  /\ last.raised = "none"
  /\ "executable" \in DOMAIN last.args[2]
  /\ parent(last.args[2].executable) # last.args[1].parent_directory
  /\ \E i \in 1..Len(games) :
       /\ games[i].id = last.args[1].id
       /\ games[i].executable = last.args[2].executable

====
